---- MODULE Spec2Model ----
(***************************************************************************)
(* Model of epub_to_pdf.py: the manifest parser (parse_opf), the cover     *)
(* page detector (is_cover_page), the document flattener                   *)
(* (build_combined_html) and the conversion run (epub_to_pdf).             *)
(*                                                                         *)
(* Strings are sequences of tokens: a token is a run of characters that    *)
(* the code never splits ("ch1", ".xhtml", "/", "#", ...).  A path or an   *)
(* href is a sequence of tokens, so that basename, replace and the link    *)
(* regular expression are computed as the code computes them.              *)
(***************************************************************************)
EXTENDS Integers, Sequences, FiniteSets, TLC

VARIABLES
    \* build_combined_html
    spine, skip_cover, i, skipped_cover, all_bodies, all_css, combined, trace, pc,
    \* is_cover_page called on its own
    probe, flagged,
    \* the link rewriting of build_combined_html applied to one href
    link, rewritten,
    \* parse_opf
    package, parsed,
    \* epub_to_pdf
    archive, run_pc, extract_dir, cover_pdf_path, files, failure

flatVars  == <<spine, skip_cover, i, skipped_cover, all_bodies, all_css, combined, trace, pc>>
probeVars == <<probe, flagged>>
linkVars  == <<link, rewritten>>
parseVars == <<package, parsed>>
runVars   == <<archive, run_pc, extract_dir, cover_pdf_path, files, failure>>
vars == <<flatVars, probeVars, linkVars, parseVars, runVars>>

(***************************************************************************)
(* Bounds                                                                  *)
(***************************************************************************)
MaxSpine == 3
MaxHref == 4

(***************************************************************************)
(* Strings, paths                                                          *)
(***************************************************************************)
None == "None"

\* a variable that holds nothing yet, or one value
Nothing == <<>>
Some(x) == <<x>>

Max(S) == CHOOSE x \in S : \A y \in S : y <= x
Min(S) == CHOOSE x \in S : \A y \in S : x <= y

SeqsUpTo(S, n) == UNION {[1..k -> S] : k \in 0..n}

\* str.replace(tok, ''): every occurrence is removed
Remove(s, tok) == SelectSeq(s, LAMBDA t : t # tok)

\* str.lower(), on the tokens that have upper-case letters
Lower(tok) ==
    CASE tok = "Cover2" -> "cover2"
      [] tok = "COVER" -> "cover"
      [] OTHER -> tok

LowerStr(s) == [k \in 1..Len(s) |-> Lower(s[k])]

\* 'cover' in tok
HasCoverSubstring(tok) == tok \in {"cover", "cover2", "cover_art", "discover", "cover-page"}

\* 'cover' in s
ContainsCover(s) == \E k \in 1..Len(s) : HasCoverSubstring(s[k])

Slashes(p) == {k \in 1..Len(p) : p[k] = "/"}

Basename(p) ==
    IF Slashes(p) = {} THEN p ELSE SubSeq(p, Max(Slashes(p)) + 1, Len(p))

Dirname(p) ==
    IF Slashes(p) = {} THEN <<>>
    ELSE IF Max(Slashes(p)) = 1 THEN <<"/">>
    ELSE SubSeq(p, 1, Max(Slashes(p)) - 1)

IsAbs(p) == Len(p) > 0 /\ p[1] = "/"

Join(a, b) ==
    IF IsAbs(b) \/ a = <<>> THEN b
    ELSE IF a[Len(a)] = "/" THEN a \o b
    ELSE a \o <<"/">> \o b

\* the components of a path: the token runs between the separators
RECURSIVE Split(_)
Split(p) ==
    IF Slashes(p) = {} THEN <<p>>
    ELSE <<SubSeq(p, 1, Min(Slashes(p)) - 1)>>
         \o Split(SubSeq(p, Min(Slashes(p)) + 1, Len(p)))

RECURSIVE Collapse(_, _, _)
Collapse(comps, acc, abs) ==
    IF comps = <<>> THEN acc
    ELSE LET c == Head(comps) IN
         IF c = <<>> \/ c = <<".">> THEN Collapse(Tail(comps), acc, abs)
         ELSE IF c = <<"..">> THEN
             IF acc # <<>> /\ acc[Len(acc)] # <<"..">>
             THEN Collapse(Tail(comps), SubSeq(acc, 1, Len(acc) - 1), abs)
             ELSE IF abs THEN Collapse(Tail(comps), acc, abs)
             ELSE Collapse(Tail(comps), Append(acc, c), abs)
         ELSE Collapse(Tail(comps), Append(acc, c), abs)

RECURSIVE Unsplit(_)
Unsplit(comps) ==
    IF comps = <<>> THEN <<>>
    ELSE IF Len(comps) = 1 THEN comps[1]
    ELSE comps[1] \o <<"/">> \o Unsplit(Tail(comps))

Normpath(p) ==
    LET body == Unsplit(Collapse(Split(p), <<>>, IsAbs(p))) IN
    IF IsAbs(p) THEN <<"/">> \o body
    ELSE IF body = <<>> THEN <<".">> ELSE body

(***************************************************************************)
(* The extracted archive on disk                                           *)
(***************************************************************************)
\* tempfile.mkdtemp(prefix="epub2pdf_extract_")
ExtractDir == <<"/", "tmp", "/", "epub2pdf_extract_">>

\* the package document's directory when the rootfile is OEBPS/content.opf
OpfDir == Dirname(Join(ExtractDir, <<"OEBPS", "/", "content", ".opf">>))

\* What open()/read() and the regular expressions see of one file:
\*   readable   open() and read() succeed (a directory exists but cannot be read)
\*   bodyTag    the text has a <body ...> tag;  bodyClass its class="..." value
\*   bodyClosed a </body> follows;  headEnd  the text has </head>
\*   imgs       the number of '<img ' tags inside the body
\*   textLen    len() of the body with its tags removed, stripped
\*   preamble   the href="..." values before the body region
\*   links      the href="..." values inside the body region
\*   css        the <link href="....css"> values
File(readable, bodyTag, bodyClass, bodyClosed, headEnd, imgs, textLen, preamble, links, css) ==
    [readable |-> readable, bodyTag |-> bodyTag, bodyClass |-> bodyClass,
     bodyClosed |-> bodyClosed, headEnd |-> headEnd, imgs |-> imgs,
     textLen |-> textLen, preamble |-> preamble, links |-> links, css |-> css]

Chapter(links, css) == File(TRUE, TRUE, None, TRUE, TRUE, 0, 500, <<>>, links, css)

AtOpf(href) == Normpath(Join(OpfDir, href))

DiskPaths ==
    {AtOpf(h) : h \in {<<"cover", ".xhtml">>, <<"Text", "/", "Cover2", ".xhtml">>,
                        <<"discover", ".xhtml">>, <<"ch1", ".xhtml">>, <<"ch2", ".xhtml">>,
                        <<"Text", "/", "ch2", ".xhtml">>, <<"ch2", ".html">>,
                        <<"cover_art">>, <<"style", ".css">>}}

Disk == [p \in DiskPaths |->
    CASE p = AtOpf(<<"cover", ".xhtml">>) ->
            File(TRUE, TRUE, None, TRUE, TRUE, 1, 20, <<>>, <<>>, {})
      [] p = AtOpf(<<"Text", "/", "Cover2", ".xhtml">>) ->
            File(TRUE, TRUE, "cover", TRUE, TRUE, 0, 500, <<>>, <<>>, {<<"..", "/", "style", ".css">>})
      [] p = AtOpf(<<"discover", ".xhtml">>) ->
            File(TRUE, TRUE, None, TRUE, TRUE, 1, 500, <<>>, <<>>, {})
      [] p = AtOpf(<<"ch1", ".xhtml">>) ->
            Chapter(<< <<"ch2", ".xhtml", "#", "s">>,
                       <<"Text", "/", "ch2", ".xhtml">>,
                       <<"http:", "/", "/", "host", "/", "p", ".xhtml">>,
                       <<"ch2", ".html">> >>,
                    {<<"style", ".css">>, <<"absent", ".css">>})
      [] p = AtOpf(<<"ch2", ".xhtml">>) ->
            Chapter(<< <<"ch1", ".xhtml">> >>, {<<"style", ".css">>})
      [] p = AtOpf(<<"Text", "/", "ch2", ".xhtml">>) ->
            Chapter(<< <<"..", "/", "ch1", ".xhtml">> >>, {<<"..", "/", "style", ".css">>})
      [] p = AtOpf(<<"ch2", ".html">>) ->
            File(TRUE, FALSE, None, FALSE, FALSE, 0, 500,
                 << <<"style", ".css">> >>, << <<"ch1", ".xhtml">> >>, {})
      [] p = AtOpf(<<"cover_art">>) ->
            File(FALSE, FALSE, None, FALSE, FALSE, 0, 0, <<>>, <<>>, {})
      [] OTHER ->
            File(TRUE, FALSE, None, FALSE, FALSE, 0, 0, <<>>, <<>>, {})]

\* os.path.exists
Exists(path) == path \in DiskPaths

\* the hrefs a manifest may declare: the files above and one that is not on disk
CatalogHrefs ==
    {<<"cover", ".xhtml">>, <<"Text", "/", "Cover2", ".xhtml">>, <<"discover", ".xhtml">>,
     <<"ch1", ".xhtml">>, <<"ch2", ".xhtml">>, <<"Text", "/", "ch2", ".xhtml">>,
     <<"ch2", ".html">>, <<"cover_art">>, <<"gone", ".xhtml">>}

ManifestItem(href, media_type, properties, opf_dir) ==
    [href |-> href, media_type |-> media_type, properties |-> properties,
     full_path |-> Normpath(Join(opf_dir, href))]

(***************************************************************************)
(* is_cover_page                                                           *)
(***************************************************************************)
CoverTextLimit == 100

\* re.search(r'<body[^>]*>(.*?)</body>', content, DOTALL | IGNORECASE)
body_match(file) == file.bodyTag /\ file.bodyClosed

\* re.search(r'<body[^>]*class="[^"]*cover[^"]*"', content, IGNORECASE)
body_class_cover(file) ==
    file.bodyTag /\ file.bodyClass # None /\ HasCoverSubstring(Lower(file.bodyClass))

\* the text limit taken as inclusive: len(text_content) <= 100
is_cover_page_inclusive(file, item) ==
    IF ~ContainsCover(Basename(LowerStr(item.href))) THEN FALSE
    ELSE IF ~file.readable THEN FALSE
    ELSE IF body_match(file) /\ file.imgs >= 1 /\ file.textLen <= CoverTextLimit THEN TRUE
    ELSE IF body_class_cover(file) THEN TRUE
    ELSE FALSE

is_cover_page(file, item) ==
    IF ~ContainsCover(Basename(LowerStr(item.href))) THEN FALSE
    ELSE IF ~file.readable THEN FALSE
    ELSE IF body_match(file) /\ file.imgs >= 1 /\ file.textLen < CoverTextLimit THEN TRUE
    ELSE IF body_class_cover(file) THEN TRUE
    ELSE FALSE

(***************************************************************************)
(* build_combined_html                                                     *)
(***************************************************************************)
\* filename.replace('.xhtml', '').replace('.html', '')
AnchorId(item) == Remove(Remove(Basename(item.href), ".xhtml"), ".html")

\* group 1 of r'href="([^"#]+?\.xhtml)(?:#([^"]*?))?"': the text before the
\* first '#', when that text is at least one character followed by '.xhtml'
LinkGroup1(href) ==
    LET hashes == {k \in 1..Len(href) : href[k] = "#"} IN
    IF hashes = {} THEN href ELSE SubSeq(href, 1, Min(hashes) - 1)

LinkMatches(href) ==
    Len(LinkGroup1(href)) >= 2 /\ LinkGroup1(href)[Len(LinkGroup1(href))] = ".xhtml"

\* lambda m: f'href="#{m.group(1).replace(".xhtml", "")}"'
RewriteHref(href) ==
    IF LinkMatches(href) THEN <<"#">> \o Remove(LinkGroup1(href), ".xhtml") ELSE href

\* the hrefs of body_html after the three-way body extraction
BodyLinks(file) ==
    IF body_match(file) THEN file.links
    ELSE IF file.headEnd THEN file.links
    ELSE file.preamble \o file.links

RewriteLinks(hrefs) == [k \in 1..Len(hrefs) |-> RewriteHref(hrefs[k])]

\* the stylesheets of one chapter that exist on disk
ChapterCss(html_path, file) ==
    {Normpath(Join(Dirname(html_path), c)) : c \in
        {c \in file.css : Exists(Normpath(Join(Dirname(html_path), c)))}}

\* 'epub-chapter-break' if i > 0 else 'epub-chapter-first'
ChapterClass(index) == IF index > 0 THEN "epub-chapter-break" ELSE "epub-chapter-first"

\* skip_cover and not skipped_cover and is_cover_page(html_path, item): the
\* detector is called only when the first two hold
DetectorCalled == skip_cover /\ ~skipped_cover

\* the skip_cover argument ignored
ShouldSkipCover_always(item) ==
    ~skipped_cover /\ is_cover_page(Disk[item.full_path], item)

\* the skipped_cover flag ignored
ShouldSkipCover_every(item) ==
    skip_cover /\ is_cover_page(Disk[item.full_path], item)

ShouldSkipCover(item) ==
    skip_cover /\ ~skipped_cover /\ is_cover_page(Disk[item.full_path], item)

notFlat == <<probeVars, linkVars, parseVars, runVars>>

Item == spine[i + 1]

InLoop == pc = "loop" /\ i < Len(spine)

Step(outcome) == [outcome |-> outcome, detector |-> DetectorCalled]

SkipMissing ==
    /\ InLoop
    /\ ~Exists(Item.full_path)
    /\ i' = i + 1
    /\ trace' = Append(trace, [outcome |-> "missing", detector |-> FALSE])
    /\ UNCHANGED <<spine, skip_cover, skipped_cover, all_bodies, all_css, combined, pc>>
    /\ UNCHANGED notFlat

SkipCoverPage ==
    /\ InLoop
    /\ Exists(Item.full_path)
    /\ ShouldSkipCover(Item)
    /\ skipped_cover' = TRUE
    /\ i' = i + 1
    /\ trace' = Append(trace, Step("cover"))
    /\ UNCHANGED <<spine, skip_cover, all_bodies, all_css, combined, pc>>
    /\ UNCHANGED notFlat

\* open(html_path) raises: the exception leaves build_combined_html
RaiseOnOpen ==
    /\ InLoop
    /\ Exists(Item.full_path)
    /\ ~ShouldSkipCover(Item)
    /\ ~Disk[Item.full_path].readable
    /\ pc' = "raised"
    /\ trace' = Append(trace, Step("raised"))
    /\ UNCHANGED <<spine, skip_cover, i, skipped_cover, all_bodies, all_css, combined>>
    /\ UNCHANGED notFlat

AppendBody ==
    /\ InLoop
    /\ Exists(Item.full_path)
    /\ ~ShouldSkipCover(Item)
    /\ Disk[Item.full_path].readable
    /\ all_css' = all_css \cup ChapterCss(Item.full_path, Disk[Item.full_path])
    /\ all_bodies' = Append(all_bodies,
            [id |-> AnchorId(Item), cls |-> ChapterClass(i),
             links |-> RewriteLinks(BodyLinks(Disk[Item.full_path]))])
    /\ i' = i + 1
    /\ trace' = Append(trace, Step("block"))
    /\ UNCHANGED <<spine, skip_cover, skipped_cover, combined, pc>>
    /\ UNCHANGED notFlat

WriteCombined ==
    /\ pc = "loop"
    /\ i = Len(spine)
    /\ combined' = Some([path |-> Join(OpfDir, <<"_combined_epub", ".html">>),
                    css |-> all_css, bodies |-> all_bodies])
    /\ pc' = "done"
    /\ UNCHANGED <<spine, skip_cover, i, skipped_cover, all_bodies, all_css, trace>>
    /\ UNCHANGED notFlat

FlatInit ==
    /\ spine \in SeqsUpTo({ManifestItem(h, "application/xhtml+xml", "", OpfDir) : h \in CatalogHrefs},
                          MaxSpine)
    /\ skip_cover \in BOOLEAN
    /\ i = 0
    /\ skipped_cover = FALSE
    /\ all_bodies = <<>>
    /\ all_css = {}
    /\ combined = Nothing
    /\ trace = <<>>
    /\ pc = "loop"

FlatIdle ==
    /\ spine = <<>> /\ skip_cover = FALSE /\ i = 0 /\ skipped_cover = FALSE
    /\ all_bodies = <<>> /\ all_css = {} /\ combined = Nothing /\ trace = <<>> /\ pc = "idle"


(***************************************************************************)
(* is_cover_page on one item and one file                                  *)
(***************************************************************************)
ProbeHrefs ==
    {<<"cover", ".xhtml">>, <<"Text", "/", "COVER", ".xhtml">>,
     <<"cover", "/", "ch1", ".xhtml">>, <<"ch1", ".xhtml">>}

ProbeFiles ==
    {File(r, bt, bc, bcl, TRUE, n, t, <<>>, <<>>, {}) :
        r \in BOOLEAN, bt \in BOOLEAN, bc \in {None, "main", "cover", "COVER"},
        bcl \in BOOLEAN, n \in 0..2,
        t \in {0, CoverTextLimit - 1, CoverTextLimit, CoverTextLimit + 1}}

ProbeInit ==
    /\ probe \in {Some(x) : x \in
            [item : {ManifestItem(h, "application/xhtml+xml", "", OpfDir) : h \in ProbeHrefs},
             file : {f \in ProbeFiles : ~f.bodyTag => f.bodyClass = None}]}
    /\ flagged = Nothing

ProbeIdle == probe = Nothing /\ flagged = Nothing

Detect ==
    /\ probe # Nothing
    /\ flagged = Nothing
    /\ flagged' = Some(is_cover_page(probe[1].file, probe[1].item))
    /\ UNCHANGED <<probe, flatVars, linkVars, parseVars, runVars>>

(***************************************************************************)
(* the link rewriting on one href                                          *)
(***************************************************************************)
HrefTokens == {"ch2", "Text", ".xhtml", ".html", "#", "/", ".."}

SampleHrefs ==
    {<<"http:", "/", "/", "host", "/", "p", ".xhtml">>,
     <<"http:", "/", "/", "host", "/", "p", ".xhtml", "#", "s">>,
     <<"http:", "/", "/", "host", "/", "p", ".html">>,
     <<"..", "/", "Text", "/", "ch2", ".xhtml", "#", "s">>}

LinkInit ==
    /\ link \in {Some(h) : h \in SeqsUpTo(HrefTokens, MaxHref) \cup SampleHrefs}
    /\ rewritten = Nothing

LinkIdle == link = Nothing /\ rewritten = Nothing

Rewrite ==
    /\ link # Nothing
    /\ rewritten = Nothing
    /\ rewritten' = Some(RewriteHref(link[1]))
    /\ UNCHANGED <<link, flatVars, probeVars, parseVars, runVars>>


(***************************************************************************)
(* parse_opf                                                               *)
(***************************************************************************)
\* One element of the package document, with the attributes and text the
\* parser reads.  The document is the sequence of its elements in document order.
Element(tag, id, href, properties, idref, text, name, content) ==
    [tag |-> tag, id |-> id, href |-> href, properties |-> properties,
     idref |-> idref, text |-> text, name |-> name, content |-> content]

ItemEl(id, href, properties) == Element("item", id, href, properties, None, None, None, None)
ItemrefEl(idref) == Element("itemref", None, <<>>, None, idref, None, None, None)
TitleEl(text) == Element("title", None, <<>>, None, None, text, None, None)
CreatorEl(text) == Element("creator", None, <<>>, None, None, text, None, None)
MetaEl(name, content) == Element("meta", None, <<>>, None, None, None, name, content)

\* root.iter(tag): the elements with that tag, in document order
Iter(doc, tag) == SelectSeq(doc, LAMBDA e : e.tag = tag)

\* The manifest dict, in insertion order: a sequence of (id, item) entries.
InManifest(manifest, id) == \E k \in 1..Len(manifest) : manifest[k].id = id

Lookup(manifest, id) ==
    manifest[CHOOSE k \in 1..Len(manifest) : manifest[k].id = id].item

\* manifest[item_id] = {...}
Put(manifest, id, item) ==
    IF InManifest(manifest, id)
    THEN [k \in 1..Len(manifest) |->
            IF manifest[k].id = id THEN [id |-> id, item |-> item] ELSE manifest[k]]
    ELSE Append(manifest, [id |-> id, item |-> item])

RECURSIVE BuildManifest(_, _, _)
BuildManifest(items, manifest, opf_dir) ==
    IF items = <<>> THEN manifest
    ELSE BuildManifest(Tail(items),
            Put(manifest, Head(items).id,
                ManifestItem(Head(items).href, "application/xhtml+xml",
                             Head(items).properties, opf_dir)),
            opf_dir)

\* spine.insert(0, ...) in place of spine.append(...)
SpineAdd_front(acc, manifest, idref) ==
    IF InManifest(manifest, idref) THEN <<Lookup(manifest, idref)>> \o acc ELSE acc

\* if idref in manifest: spine.append(manifest[idref])
SpineAdd(acc, manifest, idref) ==
    IF InManifest(manifest, idref) THEN Append(acc, Lookup(manifest, idref)) ELSE acc

RECURSIVE BuildSpine(_, _, _)
BuildSpine(itemrefs, manifest, acc) ==
    IF itemrefs = <<>> THEN acc
    ELSE BuildSpine(Tail(itemrefs), manifest, SpineAdd(acc, manifest, Head(itemrefs).idref))

\* metadata[key] = elem.text
MetaSet(metadata, key, text) == (key :> text) @@ metadata

RECURSIVE SetEach(_, _, _)
SetEach(elems, key, metadata) ==
    IF elems = <<>> THEN metadata
    ELSE SetEach(Tail(elems), key, MetaSet(metadata, key, Head(elems).text))

\* 'cover-image' in item_data.get('properties', '')
HasCoverImage(properties) == properties \in {"cover-image", "cover-image svg"}

\* the path of the first manifest entry marked cover-image; <<>> stands for None
CoverByProperty(manifest) ==
    LET hits == {k \in 1..Len(manifest) : HasCoverImage(manifest[k].item.properties)} IN
    IF hits = {} THEN <<>> ELSE manifest[Min(hits)].item.full_path

\* the meta name="cover" fallback: the first one whose content is a manifest id
RECURSIVE CoverByMeta(_, _)
CoverByMeta(metas, manifest) ==
    IF metas = <<>> THEN <<>>
    ELSE IF Head(metas).name = "cover" /\ InManifest(manifest, Head(metas).content)
         THEN Lookup(manifest, Head(metas).content).full_path
         ELSE CoverByMeta(Tail(metas), manifest)

parse_opf(dir, pkg) ==
    LET opf_path == Join(dir, pkg.full_path)
        opf_dir == Dirname(opf_path)
        manifest == BuildManifest(Iter(pkg.doc, "item"), <<>>, opf_dir)
        spn == BuildSpine(Iter(pkg.doc, "itemref"), manifest, <<>>)
        metadata == SetEach(Iter(pkg.doc, "creator"), "creator",
                            SetEach(Iter(pkg.doc, "title"), "title", <<>>))
        by_property == CoverByProperty(manifest)
    IN [spine |-> spn, manifest |-> manifest, metadata |-> metadata, opf_dir |-> opf_dir,
        cover_image_path |-> IF by_property # <<>> THEN by_property
                             ELSE CoverByMeta(Iter(pkg.doc, "meta"), manifest)]

ItemLists ==
    LET a1 == ItemEl("a", <<"ch1", ".xhtml">>, "")
        a2 == ItemEl("a", <<"ch2", ".xhtml">>, "")
        b == ItemEl("b", <<"Text", "/", "ch2", ".xhtml">>, "")
        c == ItemEl("img", <<"cover", ".jpg">>, "cover-image")
    IN {<<>>, <<a1>>, <<a1, b>>, <<b, a1>>, <<a1, a2>>, <<c, a1, b>>}

TitleLists == {<<>>, <<"T1">>, <<"T1", "T2">>, <<"T2", "T1">>, <<"T1", "T2", "T3">>}

CreatorLists == {<<>>, <<"A1", "A2">>}

MetaLists == {<<>>, <<MetaEl("cover", "ghost"), MetaEl("cover", "b")>>}

Documents ==
    {IF first THEN refs \o md \o items ELSE md \o items \o refs :
        first \in BOOLEAN,
        items \in ItemLists,
        refs \in {[k \in 1..Len(r) |-> ItemrefEl(r[k])] : r \in SeqsUpTo({"a", "b", "ghost"}, MaxSpine)},
        md \in {[k \in 1..Len(t) |-> TitleEl(t[k])] \o [k \in 1..Len(c) |-> CreatorEl(c[k])] \o m :
                    t \in TitleLists, c \in CreatorLists, m \in MetaLists}}

Package(container, wellformed, doc) ==
    [container |-> container, full_path |-> <<"OEBPS", "/", "content", ".opf">>,
     wellformed |-> wellformed, doc |-> doc]

Packages ==
    {Package("ok", TRUE, d) : d \in Documents}
    \cup {Package("missing", TRUE, <<>>), Package("norootfile", TRUE, <<>>),
          Package("ok", FALSE, <<>>)}

ParseInit ==
    /\ package \in {Some(x) : x \in Packages}
    /\ parsed = Nothing

ParseIdle == package = Nothing /\ parsed = Nothing

notParse == <<package, flatVars, probeVars, linkVars, runVars>>

Parsing == package # Nothing /\ parsed = Nothing

\* raise FileNotFoundError("No META-INF/container.xml found - not a valid EPUB")
RaiseNoContainer ==
    /\ Parsing
    /\ package[1].container = "missing"
    /\ parsed' = Some([raised |-> "FileNotFoundError"])
    /\ UNCHANGED notParse

\* raise ValueError("No rootfile found in container.xml")
RaiseNoRootfile ==
    /\ Parsing
    /\ package[1].container = "norootfile"
    /\ parsed' = Some([raised |-> "ValueError"])
    /\ UNCHANGED notParse

\* ET.parse(opf_path) raises
RaiseParseError ==
    /\ Parsing
    /\ package[1].container = "ok"
    /\ ~package[1].wellformed
    /\ parsed' = Some([raised |-> "ParseError"])
    /\ UNCHANGED notParse

ParseOpf ==
    /\ Parsing
    /\ package[1].container = "ok"
    /\ package[1].wellformed
    /\ parsed' = Some([raised |-> None] @@ parse_opf(ExtractDir, package[1]))
    /\ UNCHANGED notParse


(***************************************************************************)
(* epub_to_pdf                                                             *)
(***************************************************************************)
\* pdf_path: the output file
PdfPath == <<"/", "home", "/", "book", ".pdf">>

\* The input of one run:
\*   zip_ok       zipfile can open and extract the archive
\*   container    "missing", "norootfile" or "ok": META-INF/container.xml
\*   full_path    the rootfile's full-path attribute
\*   opf_ok       ET.parse finds a well-formed package document at opf_path
\*   cover        the package names a cover image that exists
Archives ==
    [zip_ok : BOOLEAN, container : {"missing", "norootfile", "ok"},
     full_path : {<<"content", ".opf">>, <<"OEBPS", "/", "content", ".opf">>,
                  <<"..", "/", "shared", "/", "content", ".opf">>,
                  <<"/", "srv", "/", "book", "/", "content", ".opf">>},
     opf_ok : BOOLEAN, cover : BOOLEAN]

\* whether path lies in the tree rooted at dir
IsUnder(path, dir) ==
    LET q == Normpath(path) IN
    /\ Len(q) >= Len(dir)
    /\ SubSeq(q, 1, Len(dir)) = dir
    /\ (Len(q) = Len(dir) \/ q[Len(dir) + 1] = "/")

\* shutil.rmtree(extract_dir, ignore_errors=True)
Rmtree(fs, dir) == {f \in fs : ~IsUnder(f, dir)}

\* opf_dir as parse_opf returns it
RunOpfDir == Dirname(Join(extract_dir[1], archive[1].full_path))

\* combined_path = os.path.join(opf_dir, '_combined_epub.html')
CombinedPath == Join(RunOpfDir, <<"_combined_epub", ".html">>)

CoverPdfPath == Join(extract_dir[1], <<"_cover", ".pdf">>)

ContentPdfPath == Join(extract_dir[1], <<"_content", ".pdf">>)

notRun == <<flatVars, probeVars, linkVars, parseVars>>

RunInit ==
    /\ archive \in {Some(x) : x \in Archives}
    /\ run_pc = "mkdtemp"
    /\ extract_dir = Nothing
    /\ cover_pdf_path = Nothing
    /\ files = {}
    /\ failure = Nothing

RunIdle ==
    /\ archive = Nothing /\ run_pc = "idle" /\ extract_dir = Nothing
    /\ cover_pdf_path = Nothing /\ files = {} /\ failure = Nothing

\* an exception in the try block: control goes to the finally clause
Raise(stage) ==
    /\ failure' = Some(stage)
    /\ run_pc' = "finally"

\* extract_dir = tempfile.mkdtemp(prefix="epub2pdf_extract_")
MkDtemp ==
    /\ run_pc = "mkdtemp"
    /\ extract_dir' = Some(ExtractDir)
    /\ files' = files \cup {ExtractDir}
    /\ run_pc' = "extract"
    /\ UNCHANGED <<archive, cover_pdf_path, failure, notRun>>

\* Step 1: extract_epub
ExtractEpub ==
    /\ run_pc = "extract"
    /\ archive[1].zip_ok
    /\ files' = files \cup
         (IF archive[1].container = "missing" THEN {}
          ELSE {Join(extract_dir[1], <<"META-INF", "/", "container", ".xml">>)})
         \cup {Join(extract_dir[1], <<"OEBPS", "/", "ch1", ".xhtml">>)}
    /\ run_pc' = "parse"
    /\ UNCHANGED <<archive, extract_dir, cover_pdf_path, failure, notRun>>

ExtractFails ==
    /\ run_pc = "extract"
    /\ ~archive[1].zip_ok
    /\ Raise("extract")
    /\ UNCHANGED <<archive, extract_dir, cover_pdf_path, files, notRun>>

\* Step 2: parse_opf
RunParse ==
    /\ run_pc = "parse"
    /\ archive[1].container = "ok" /\ archive[1].opf_ok
    /\ run_pc' = "cover"
    /\ UNCHANGED <<archive, extract_dir, cover_pdf_path, files, failure, notRun>>

RunParseFails ==
    /\ run_pc = "parse"
    /\ ~(archive[1].container = "ok" /\ archive[1].opf_ok)
    /\ Raise("parse")
    /\ UNCHANGED <<archive, extract_dir, cover_pdf_path, files, notRun>>

\* Step 3: create_cover_pdf, when a cover image was found and exists
CreateCover ==
    /\ run_pc = "cover"
    /\ archive[1].cover
    /\ cover_pdf_path' = Some(CoverPdfPath)
    /\ files' = files \cup {CoverPdfPath}
    /\ run_pc' = "flatten"
    /\ UNCHANGED <<archive, extract_dir, failure, notRun>>

\* Image.open or save raises
CreateCoverFails ==
    /\ run_pc = "cover"
    /\ archive[1].cover
    /\ Raise("cover")
    /\ UNCHANGED <<archive, extract_dir, cover_pdf_path, files, notRun>>

NoCover ==
    /\ run_pc = "cover"
    /\ ~archive[1].cover
    /\ run_pc' = "flatten"
    /\ UNCHANGED <<archive, extract_dir, cover_pdf_path, files, failure, notRun>>

\* Step 4: build_combined_html writes combined_path
RunFlatten ==
    /\ run_pc = "flatten"
    /\ files' = files \cup {CombinedPath}
    /\ run_pc' = "render"
    /\ UNCHANGED <<archive, extract_dir, cover_pdf_path, failure, notRun>>

\* a chapter that exists cannot be read
RunFlattenFails ==
    /\ run_pc = "flatten"
    /\ Raise("flatten")
    /\ UNCHANGED <<archive, extract_dir, cover_pdf_path, files, notRun>>

\* Step 5: render_to_pdf
Render ==
    /\ run_pc = "render"
    /\ files' = files \cup {ContentPdfPath}
    /\ run_pc' = "merge"
    /\ UNCHANGED <<archive, extract_dir, cover_pdf_path, failure, notRun>>

RenderFails ==
    /\ run_pc = "render"
    /\ Raise("render")
    /\ UNCHANGED <<archive, extract_dir, cover_pdf_path, files, notRun>>

\* Step 6: writer.write(str(pdf_path))
Merge ==
    /\ run_pc = "merge"
    /\ files' = files \cup {PdfPath}
    /\ run_pc' = "finally"
    /\ UNCHANGED <<archive, extract_dir, cover_pdf_path, failure, notRun>>

MergeFails ==
    /\ run_pc = "merge"
    /\ Raise("merge")
    /\ UNCHANGED <<archive, extract_dir, cover_pdf_path, files, notRun>>

\* finally: shutil.rmtree(extract_dir, ignore_errors=True)
Finally ==
    /\ run_pc = "finally"
    /\ files' = Rmtree(files, extract_dir[1])
    /\ run_pc' = IF failure = Nothing THEN "returned" ELSE "raised"
    /\ UNCHANGED <<archive, extract_dir, cover_pdf_path, failure, notRun>>

(***************************************************************************)
(* Specifications                                                          *)
(***************************************************************************)
Init == FlatInit /\ ProbeIdle /\ LinkIdle /\ ParseIdle /\ RunIdle

Next == SkipMissing \/ SkipCoverPage \/ RaiseOnOpen \/ AppendBody \/ WriteCombined

\* one pass of build_combined_html over a spine
Spec == Init /\ [][Next]_vars

DetectInit == FlatIdle /\ ProbeInit /\ LinkIdle /\ ParseIdle /\ RunIdle

\* is_cover_page on one item
SpecDetect == DetectInit /\ [][Detect]_vars

RewriteInit == FlatIdle /\ ProbeIdle /\ LinkInit /\ ParseIdle /\ RunIdle

\* the link rewriting on one href
SpecRewrite == RewriteInit /\ [][Rewrite]_vars

ParseSpecInit == FlatIdle /\ ProbeIdle /\ LinkIdle /\ ParseInit /\ RunIdle

ParseNext == RaiseNoContainer \/ RaiseNoRootfile \/ RaiseParseError \/ ParseOpf

\* parse_opf on one extracted archive
SpecParse == ParseSpecInit /\ [][ParseNext]_vars

RunSpecInit == FlatIdle /\ ProbeIdle /\ LinkIdle /\ ParseIdle /\ RunInit

RunNext ==
    \/ MkDtemp \/ ExtractEpub \/ ExtractFails \/ RunParse \/ RunParseFails
    \/ CreateCover \/ CreateCoverFails \/ NoCover \/ RunFlatten \/ RunFlattenFails
    \/ Render \/ RenderFails \/ Merge \/ MergeFails \/ Finally

\* one run of epub_to_pdf
SpecRun == RunSpecInit /\ [][RunNext]_vars


(***************************************************************************)
(* Properties of build_combined_html (Spec)                                *)
(***************************************************************************)
\* the spine positions (from 1) the pass has handled with the given outcome
Handled(outcome) == {k \in 1..Len(trace) : trace[k].outcome = outcome}

\* the spine positions among the first n whose file exists
ExistingUpTo(n) == {k \in 1..n : Exists(spine[k].full_path)}

\* the spine position whose chapter became block j
SrcOf(j) ==
    CHOOSE k \in Handled("block") : Cardinality({m \in Handled("block") : m <= k}) = j

\* the spine positions the detector flags when asked
Flaggable ==
    {k \in 1..Len(spine) :
        Exists(spine[k].full_path) /\ is_cover_page(Disk[spine[k].full_path], spine[k])}

\* C1: at every point of the pass the number of content blocks is the number of
\* handled spine entries whose file exists, minus the elided cover page; at most
\* one entry is elided, none when skip_cover is false; the written document
\* holds exactly these blocks.
C1_BlockCount ==
    pc \in {"loop", "done"} =>
        /\ Len(all_bodies) = Cardinality(ExistingUpTo(i)) - Cardinality(Handled("cover"))
        /\ Cardinality(Handled("cover")) <= 1
        /\ (~skip_cover => Handled("cover") = {})
        /\ (pc = "done" =>
                /\ i = Len(spine)
                /\ Len(combined[1].bodies) =
                     Cardinality(ExistingUpTo(Len(spine))) - Cardinality(Handled("cover")))

C1_Witness ==
    /\ pc = "done"
    /\ Handled("missing") # {}
    /\ Handled("cover") # {}
    /\ Len(combined[1].bodies) = 1

\* C2: no two content blocks carry the same id.
C2_UniqueIds ==
    \A a, b \in 1..Len(all_bodies) : a # b => all_bodies[a].id # all_bodies[b].id

\* the file a hyperlink of the chapter at spine position k points at
LinkTarget(k, href) ==
    Normpath(Join(Dirname(spine[k].full_path), LinkGroup1(href)))

\* C3: a rewritten hyperlink that points at a chapter of the flattened document
\* targets exactly that chapter's anchor id.
C3_LinksMatchAnchors ==
    \A j \in 1..Len(all_bodies) : \A n \in 1..Len(all_bodies[j].links) :
        LET orig == BodyLinks(Disk[spine[SrcOf(j)].full_path])[n]
            new == all_bodies[j].links[n]
        IN new # orig =>
            \A d \in 1..Len(all_bodies) :
                LinkTarget(SrcOf(j), orig) = spine[SrcOf(d)].full_path
                    => new = <<"#">> \o all_bodies[d].id

\* C4: with cover skipping active and two or more spine items the detector would
\* flag, exactly the first of them is elided and the others become content
\* blocks; after an elision the detector is not called again.
C4_FirstCoverOnly ==
    /\ \A k, m \in 1..Len(trace) :
            trace[k].outcome = "cover" /\ k < m => ~trace[m].detector
    /\ (pc = "done" /\ skip_cover /\ Cardinality(Flaggable) >= 2) =>
            /\ Handled("cover") = {Min(Flaggable)}
            /\ \A k \in Flaggable \ {Min(Flaggable)} : trace[k].outcome = "block"

C4_Witness ==
    /\ pc = "done"
    /\ skip_cover
    /\ Cardinality(Flaggable) >= 2
    /\ \E k, m \in Flaggable : spine[k] # spine[m]
    /\ Len(all_bodies) >= 1

\* C9: the first content block carries the 'first' class and every later one
\* the 'break' class.
C9_FirstBlockClass ==
    \A j \in 1..Len(all_bodies) :
        all_bodies[j].cls = IF j = 1 THEN "epub-chapter-first" ELSE "epub-chapter-break"

IsExternal(href) == Len(href) >= 3 /\ SubSeq(href, 1, 3) = <<"http:", "/", "/">>

\* a reference to somefile.xhtml in the archive, with or without a fragment
IsArchiveXhtml(href) ==
    /\ ~IsExternal(href)
    /\ Len(LinkGroup1(href)) >= 2
    /\ LinkGroup1(href)[Len(LinkGroup1(href))] = ".xhtml"

\* C8: a hyperlink is changed if and only if it refers to somefile.xhtml in the
\* archive, and then to '#somefile' without the fragment; external URLs and
\* .html targets are left as they are.
C8_RewriteRule ==
    rewritten # Nothing =>
        /\ (rewritten[1] # link[1]) <=> IsArchiveXhtml(link[1])
        /\ IsExternal(link[1]) => rewritten[1] = link[1]
        /\ IsArchiveXhtml(link[1]) =>
                /\ rewritten[1][1] = "#"
                /\ \A k \in 2..Len(rewritten[1]) : rewritten[1][k] \notin {"#", ".xhtml"}

(***************************************************************************)
(* Properties of parse_opf (SpecParse)                                     *)
(***************************************************************************)
Returned == parsed # Nothing /\ parsed[1].raised = None

\* the text of the first element with the tag; absent when there is none
FirstWins(tag, key) ==
    LET elems == Iter(package[1].doc, tag) IN
    IF elems = <<>> THEN key \notin DOMAIN parsed[1].metadata
    ELSE key \in DOMAIN parsed[1].metadata /\ parsed[1].metadata[key] = elems[1].text

\* C6: the metadata holds the text of the first dc:title and of the first
\* dc:creator; a key with no element is absent.
C6_FirstOccurrenceWins ==
    Returned => FirstWins("title", "title") /\ FirstWins("creator", "creator")

\* the itemrefs whose idref is the id of some item, in document order
ResolvedRefs ==
    LET doc == package[1].doc
        ids == {doc[k].id : k \in {n \in 1..Len(doc) : doc[n].tag = "item"}}
    IN SelectSeq(package[1].doc, LAMBDA e : e.tag = "itemref" /\ e.idref \in ids)

\* C7: the spine is the manifest items the itemrefs name, in itemref order,
\* without the itemrefs whose idref is no manifest id; parse_opf does not raise
\* on such an itemref.
C7_SpineOrder ==
    (parsed # Nothing /\ package[1].container = "ok" /\ package[1].wellformed) =>
        /\ parsed[1].raised = None
        /\ Len(parsed[1].spine) = Len(ResolvedRefs)
        /\ \A k \in 1..Len(ResolvedRefs) :
                parsed[1].spine[k] = Lookup(parsed[1].manifest, ResolvedRefs[k].idref)

C7_Witness ==
    /\ Returned
    /\ LET refs == Iter(package[1].doc, "itemref") IN
       \E a, g, b \in 1..Len(refs) :
            /\ a < g /\ g < b
            /\ refs[g].idref = "ghost"
            /\ refs[a].idref # refs[b].idref
            /\ InManifest(parsed[1].manifest, refs[a].idref)
            /\ InManifest(parsed[1].manifest, refs[b].idref)
    /\ Len(parsed[1].spine) = 2

(***************************************************************************)
(* Properties of epub_to_pdf (SpecRun)                                     *)
(***************************************************************************)
Intermediate(path) ==
    Basename(path) \in {<<"_cover", ".pdf">>, <<"_combined_epub", ".html">>, <<"_content", ".pdf">>}

\* C5: when the run has ended, the extraction directory and every
\* intermediate file are gone; after a successful run only the output PDF is left.
C5_NothingLeftBehind ==
    run_pc \in {"returned", "raised"} =>
        /\ \A f \in files : ~IsUnder(f, ExtractDir) /\ ~Intermediate(f)
        /\ (run_pc = "returned" => files = {PdfPath})


====
